---- MODULE Spec2Model ----
(***************************************************************************)
(* Model of poise's autocomplete argument layer                            *)
(* (src/slash/argument/autocomplete/autocompletable.rs).                   *)
(*                                                                         *)
(* The layer is a set of AutocompletableHack impls on PhantomData<T>,      *)
(* &PhantomData<T> and &&PhantomData<T>; method resolution picks the impl  *)
(* with the most references whose bounds the parameter type satisfies.     *)
(* Each impl is a pair extract_partial / into_json over serde_json values. *)
(*                                                                         *)
(* Numbers are exact.  A natural number is its binary expansion, most      *)
(* significant bit first and without leading zeros (zero is <<>>), so that *)
(* 64-bit integers and 53-bit significands keep their real width.  A       *)
(* finite float is sign * m * 2^e with m odd (or zero), which is unique    *)
(* per value.                                                              *)
(***************************************************************************)
EXTENDS Integers, Sequences, FiniteSets, TLC

VARIABLES ty, lastOp, value, result, cand, json, used

vars == <<ty, lastOp, value, result, cand, json, used>>

(***************************************************************************)
(* Bounds of the model.                                                    *)
(***************************************************************************)
\* integer inputs are taken at distance <= Delta from every power of two
\* that bounds an integer type or a float significand
Delta == 1

(***************************************************************************)
(* Arithmetic on binary expansions.                                        *)
(***************************************************************************)
Max(a, b) == IF a >= b THEN a ELSE b

Zeros(k) == [i \in 1..k |-> 0]

Pow2(k) == <<1>> \o Zeros(k)

RECURSIVE NatBits(_)
NatBits(n) == IF n = 0 THEN <<>> ELSE NatBits(n \div 2) \o <<n % 2>>

Front(b) == SubSeq(b, 1, Len(b) - 1)

Last(b) == b[Len(b)]

RECURSIVE Inc(_)
Inc(b) ==
    IF b = <<>> THEN <<1>>
    ELSE IF Last(b) = 0 THEN Front(b) \o <<1>>
    ELSE Inc(Front(b)) \o <<0>>

RECURSIVE Dec(_)
Dec(b) ==
    IF Last(b) = 1
    THEN (IF Len(b) = 1 THEN <<>> ELSE Front(b) \o <<0>>)
    ELSE Dec(Front(b)) \o <<1>>

RECURSIVE AddSmall(_, _)
AddSmall(b, d) ==
    IF d = 0 THEN b
    ELSE IF d > 0 THEN AddSmall(Inc(b), d - 1)
    ELSE AddSmall(Dec(b), d + 1)

\* a < b on naturals
BitsLT(a, b) ==
    \/ Len(a) < Len(b)
    \/ /\ Len(a) = Len(b)
       /\ \E i \in 1..Len(a) :
            /\ a[i] < b[i]
            /\ \A j \in 1..(i - 1) : a[j] = b[j]

BitsLE(a, b) == a = b \/ BitsLT(a, b)

RECURSIVE StripLeading(_)
StripLeading(b) ==
    IF b = <<>> THEN <<>>
    ELSE IF b[1] = 1 THEN b
    ELSE StripLeading(SubSeq(b, 2, Len(b)))

RECURSIVE HexBits(_)
HexBits(h) ==
    IF h = <<>> THEN <<>>
    ELSE HexBits(Front(h)) \o
         << (Last(h) \div 8) % 2, (Last(h) \div 4) % 2,
            (Last(h) \div 2) % 2, Last(h) % 2 >>

\* the natural number written with the hexadecimal digits h
FromHex(h) == StripLeading(HexBits(h))

RECURSIVE TrailingZeros(_)
TrailingZeros(b) ==
    IF b = <<>> \/ Last(b) = 1 THEN 0 ELSE 1 + TrailingZeros(Front(b))

\* b / 2^s rounded to the nearest natural, ties to even (IEEE 754 default)
RoundShift(b, s) ==
    LET L == Len(b) IN
    IF s = 0 THEN b
    ELSE IF s > L THEN <<>>
    ELSE LET kept   == SubSeq(b, 1, L - s)
             guard  == b[L - s + 1] = 1
             sticky == \E i \in (L - s + 2)..L : b[i] = 1
             lsb    == kept # <<>> /\ Last(kept) = 1
         IN IF guard /\ (sticky \/ lsb) THEN Inc(kept) ELSE kept

\* b / 2^s rounded toward zero
TruncShift(b, s) ==
    IF s >= Len(b) THEN <<>> ELSE SubSeq(b, 1, Len(b) - s)

(***************************************************************************)
(* Floating-point values (f32 and f64 share the representation; the type   *)
(* decides which values exist).                                            *)
(***************************************************************************)
NaN == [cls |-> "nan", neg |-> FALSE, m |-> <<>>, e |-> 0]

Inf(neg) == [cls |-> "inf", neg |-> neg, m |-> <<>>, e |-> 0]

\* the finite value (-1)^neg * b * 2^e, in canonical form
MkFin(neg, b, e) ==
    IF b = <<>> THEN [cls |-> "fin", neg |-> neg, m |-> <<>>, e |-> 0]
    ELSE LET tz == TrailingZeros(b)
         IN [cls |-> "fin", neg |-> neg,
             m |-> SubSeq(b, 1, Len(b) - tz), e |-> e + tz]

is_finite(x) == x.cls = "fin"

\* significand and exponent widths of the two IEEE 754 formats
F64Digits == 53
F64MaxExp == 1023
F64MinExp == -1074
F32Digits == 24
F32MaxExp == 127
F32MinExp == -149

IsF64(x) ==
    x.cls = "fin" => \/ x.m = <<>>
                     \/ /\ Len(x.m) <= F64Digits
                        /\ x.e >= F64MinExp
                        /\ Len(x.m) + x.e - 1 <= F64MaxExp

IsF32(x) ==
    x.cls = "fin" => \/ x.m = <<>>
                     \/ /\ Len(x.m) <= F32Digits
                        /\ x.e >= F32MinExp
                        /\ Len(x.m) + x.e - 1 <= F32MaxExp

(***************************************************************************)
(* serde_json::Value and serde_json::Number.                               *)
(* A Number is PosInt(u64), NegInt(i64 < 0, kept here as its magnitude) or *)
(* Float(finite f64).                                                      *)
(***************************************************************************)
PosInt(b) == [kind |-> "PosInt", neg |-> FALSE, m |-> b, e |-> 0]

NegInt(b) == [kind |-> "NegInt", neg |-> TRUE, m |-> b, e |-> 0]

Float(x) == [kind |-> "Float", neg |-> x.neg, m |-> x.m, e |-> x.e]

Null == [tag |-> "Null"]

Bool(b) == [tag |-> "Bool", b |-> b]

Number(n) == [tag |-> "Number", n |-> n]

String(s) == [tag |-> "String", s |-> s]

Array(a) == [tag |-> "Array", items |-> a]

Object(keys) == [tag |-> "Object", keys |-> keys]

Some(x) == [some |-> TRUE, v |-> x]

None == [some |-> FALSE]

\* Result<_, SlashArgError>
Ok(v) == [kind |-> "Ok", val |-> v]

CommandStructureMismatch(msg) ==
    [kind |-> "Err", err |-> "CommandStructureMismatch", msg |-> msg]

IntegerOutOfBounds == [kind |-> "Err", err |-> "IntegerOutOfBounds", msg |-> ""]

\* a signed integer of unbounded size: sign and magnitude
SInt(neg, b) == [neg |-> neg /\ b # <<>>, bits |-> b]

I64Max == Dec(Pow2(63))

U64Max == Dec(Pow2(64))

\* (mutation: scalars are coerced to their text, as a lenient parser would)
as_str_coercing(v) ==
    IF v.tag = "String" THEN Some(v.s)
    ELSE IF v.tag = "Bool" THEN Some(IF v.b THEN "true" ELSE "false")
    ELSE IF v.tag = "Null" THEN Some("")
    ELSE None

\* Value::as_str
as_str(v) == IF v.tag = "String" THEN Some(v.s) ELSE None

\* Number::as_i64, which accepts PosInt only up to i64::MAX and no Float
\* (mutation: a Float holding an integral value is truncated to an integer)
as_i64_truncating(v) ==
    IF v.tag # "Number" THEN None
    ELSE IF v.n.kind = "PosInt"
         THEN (IF BitsLE(v.n.m, I64Max) THEN Some(SInt(FALSE, v.n.m)) ELSE None)
    ELSE IF v.n.kind = "NegInt" THEN Some(SInt(TRUE, v.n.m))
    ELSE IF v.n.e >= 0 /\ Len(v.n.m) + v.n.e <= 63
         THEN Some(SInt(v.n.neg, v.n.m \o Zeros(v.n.e)))
    ELSE IF v.n.e < 0 /\ Len(v.n.m) <= 63
         THEN Some(SInt(v.n.neg, TruncShift(v.n.m, 0 - v.n.e)))
    ELSE None

\* (mutation: PosInt above i64::MAX is clamped instead of rejected)
as_i64_saturating(v) ==
    IF v.tag # "Number" THEN None
    ELSE IF v.n.kind = "PosInt"
         THEN (IF BitsLE(v.n.m, I64Max) THEN Some(SInt(FALSE, v.n.m))
               ELSE Some(SInt(FALSE, I64Max)))
    ELSE IF v.n.kind = "NegInt" THEN Some(SInt(TRUE, v.n.m))
    ELSE None

as_i64(v) ==
    IF v.tag # "Number" THEN None
    ELSE IF v.n.kind = "PosInt"
         THEN (IF BitsLE(v.n.m, I64Max) THEN Some(SInt(FALSE, v.n.m)) ELSE None)
    ELSE IF v.n.kind = "NegInt" THEN Some(SInt(TRUE, v.n.m))
    ELSE None

\* u64 as f64 / i64 as f64: nearest double, ties to even
IntAsF64(neg, b) ==
    LET s == Max(Len(b) - F64Digits, 0)
    IN MkFin(neg, RoundShift(b, s), s)

\* (mutation: only a Float-kind number is accepted)
as_f64_float_only(v) ==
    IF v.tag # "Number" THEN None
    ELSE IF v.n.kind = "Float" THEN Some(MkFin(v.n.neg, v.n.m, v.n.e))
    ELSE None

\* Number::as_f64
as_f64(v) ==
    IF v.tag # "Number" THEN None
    ELSE IF v.n.kind = "Float" THEN Some(MkFin(v.n.neg, v.n.m, v.n.e))
    ELSE Some(IntAsF64(v.n.neg, v.n.m))

\* Number::from_f64: None for NaN and the infinities
from_f64(x) == IF is_finite(x) THEN Some(Float(x)) ELSE None

\* f64 as f32: nearest single, ties to even, overflow to infinity
F64AsF32(x) ==
    IF x.cls # "fin" \/ x.m = <<>> THEN x
    ELSE LET s == Max(Max(Len(x.m) - F32Digits, F32MinExp - x.e), 0)
             r == RoundShift(x.m, s)
         IN IF r = <<>> THEN MkFin(x.neg, <<>>, 0)
            ELSE IF Len(r) + x.e + s - 1 > F32MaxExp THEN Inf(x.neg)
            ELSE MkFin(x.neg, r, x.e + s)

\* f32 as f64: every f32 is an f64 with the same value
F32AsF64(x) == x

(***************************************************************************)
(* Parameter types.  A type is known to the layer only by the bounds it    *)
(* satisfies:                                                              *)
(*   Str   ArgumentConvert + ToString            (PhantomData<T>)          *)
(*   Int   TryFrom<i64> + Into<Number>           (&PhantomData<T>)         *)
(*   F32   T is f32                              (&&PhantomData<f32>)      *)
(*   F64   T is f64                              (&&PhantomData<f64>)      *)
(*   Comp  T: Autocompletable                    (&&PhantomData<T>)        *)
(* UserPartial, UserText and UserId stand for types of a dependent crate   *)
(* that implement Autocompletable themselves; UserText is also parsed from *)
(* and formatted to text, UserId is also an integer newtype.               *)
(***************************************************************************)
IntTypes == {"i8", "i16", "i32", "i64", "u8", "u16", "u32", "u64"}

FloatTypes == {"f32", "f64"}

TextTypes == {"String", "bool", "Ipv4Addr"}

UserTypes == {"UserPartial", "UserText", "UserId"}

Types == IntTypes \cup FloatTypes \cup TextTypes \cup UserTypes

Signed(T) == T \in {"i8", "i16", "i32", "i64"}

Width(T) ==
    CASE T \in {"i8", "u8"} -> 8
      [] T \in {"i16", "u16"} -> 16
      [] T \in {"i32", "u32", "UserId"} -> 32
      [] T \in {"i64", "u64"} -> 64

Caps(T) ==
    CASE T \in IntTypes -> {"Int", "Str"}
      [] T = "f32" -> {"F32", "Str"}
      [] T = "f64" -> {"F64", "Str"}
      [] T \in TextTypes -> {"Str"}
      [] T = "UserPartial" -> {"Comp"}
      [] T = "UserText" -> {"Comp", "Str"}
      [] T = "UserId" -> {"Comp", "Int", "Str"}

\* T::MIN and T::MAX as magnitudes
MaxMag(T) == IF Signed(T) THEN Dec(Pow2(Width(T) - 1)) ELSE Dec(Pow2(Width(T)))

MinMag(T) == IF Signed(T) THEN Pow2(Width(T) - 1) ELSE <<>>

\* (mutation: the conversion is an unchecked cast that never fails)
try_from_unchecked(T, i) == Some(i)

\* <T as TryFrom<i64>>::try_from
try_from(T, i) ==
    IF i.neg
    THEN (IF BitsLE(i.bits, MinMag(T)) THEN Some(i) ELSE None)
    ELSE (IF BitsLE(i.bits, MaxMag(T)) THEN Some(i) ELSE None)

\* <Number as From<T>>::from for the integer types
NumberFrom(i) == IF i.neg THEN NegInt(i.bits) ELSE PosInt(i.bits)

\* <T as ToString>::to_string of the sample text types
to_string(c) ==
    CASE c.t = "str" -> c.s
      [] c.t = "bool" -> (IF c.b THEN "true" ELSE "false")
      [] c.t = "ip" -> ToString(c.o[1]) \o "." \o ToString(c.o[2]) \o "."
                       \o ToString(c.o[3]) \o "." \o ToString(c.o[4])

(***************************************************************************)
(* The five impls of AutocompletableHack<T>.                               *)
(***************************************************************************)
\* impl for PhantomData<T>: arbitrary types that can be parsed from string
extract_partial_String(v) ==
    LET string == as_str(v)
    IN IF string.some THEN Ok(string.v)
       ELSE CommandStructureMismatch("expected string")

into_json_String(c) == String(to_string(c))

\* impl for &PhantomData<T>: all integers, signed and unsigned
extract_partial_Integer(T, v) ==
    LET i == as_i64(v)
    IN IF ~i.some THEN CommandStructureMismatch("expected integer")
       ELSE LET t == try_from(T, i.v)
            IN IF t.some THEN Ok(t.v) ELSE IntegerOutOfBounds

into_json_Integer(c) == Number(NumberFrom(c))

\* (mutation: the fallback of a non-finite float is the float 0.0)
unwrap_or_zero_float(n) == IF n.some THEN n.v ELSE Float(MkFin(FALSE, <<>>, 0))

\* .unwrap_or_else(|| serde_json::Number::from(0))
unwrap_or_zero(n) == IF n.some THEN n.v ELSE NumberFrom(SInt(FALSE, NatBits(0)))

\* (mutation: the message of the integer impl is kept in the f32 impl)
extract_partial_f32_integer_message(v) ==
    LET f == as_f64(v)
    IN IF f.some THEN Ok(F64AsF32(f.v))
       ELSE CommandStructureMismatch("expected integer")

\* impl for &&PhantomData<f32>
extract_partial_f32(v) ==
    LET f == as_f64(v)
    IN IF f.some THEN Ok(F64AsF32(f.v))
       ELSE CommandStructureMismatch("expected float")

into_json_f32(x) == Number(unwrap_or_zero(from_f64(F32AsF64(x))))

\* impl for &&PhantomData<f64>
extract_partial_f64(v) ==
    LET f == as_f64(v)
    IN IF f.some THEN Ok(f.v)
       ELSE CommandStructureMismatch("expected float")

into_json_f64(x) == Number(unwrap_or_zero(from_f64(x)))

\* impl<T: Autocompletable> for &&PhantomData<T>: both operations are handed
\* to T's own implementation with the argument unchanged
extract_partial_Composite(T, v) == [kind |-> "Delegated", to |-> T, arg |-> v]

into_json_Composite(T, c) == [tag |-> "Delegated", to |-> T, arg |-> c]

(***************************************************************************)
(* Method resolution.  Every impl has a Self type with a number of         *)
(* references and a bound on T.  The call is made on a receiver with at    *)
(* least as many references as any impl; the probe looks for applicable    *)
(* impls at the receiver type and removes one reference at a time.  Two    *)
(* applicable impls at one step are an ambiguity error, none at all a      *)
(* missing-method error; both fail the build.                              *)
(***************************************************************************)
\* (mutation: the Autocompletable impl is written on PhantomData<T>)
Impls_composite_unreferenced ==
    { [name |-> "String",    refs |-> 0, bound |-> "Str"],
      [name |-> "Integer",   refs |-> 1, bound |-> "Int"],
      [name |-> "f32",       refs |-> 2, bound |-> "F32"],
      [name |-> "f64",       refs |-> 2, bound |-> "F64"],
      [name |-> "Composite", refs |-> 0, bound |-> "Comp"] }

Impls ==
    { [name |-> "String",    refs |-> 0, bound |-> "Str"],
      [name |-> "Integer",   refs |-> 1, bound |-> "Int"],
      [name |-> "f32",       refs |-> 2, bound |-> "F32"],
      [name |-> "f64",       refs |-> 2, bound |-> "F64"],
      [name |-> "Composite", refs |-> 2, bound |-> "Comp"] }

MaxRefs == CHOOSE r \in {i.refs : i \in Impls} : \A i \in Impls : i.refs <= r

RECURSIVE Probe(_, _)
Probe(T, refs) ==
    LET applicable == {i \in Impls : i.refs = refs /\ i.bound \in Caps(T)}
    IN IF Cardinality(applicable) = 1
       THEN (CHOOSE i \in applicable : TRUE).name
       ELSE IF Cardinality(applicable) > 1 THEN "Ambiguous"
       ELSE IF refs = 0 THEN "NoMethod"
       ELSE Probe(T, refs - 1)

Resolve(T) == Probe(T, MaxRefs)

BuildError == [kind |-> "BuildError"]

\* (&&PhantomData::<T>).extract_partial(value)
extract_partial(T, v) ==
    LET impl == Resolve(T)
    IN CASE impl = "String"    -> extract_partial_String(v)
         [] impl = "Integer"   -> extract_partial_Integer(T, v)
         [] impl = "f32"       -> extract_partial_f32(v)
         [] impl = "f64"       -> extract_partial_f64(v)
         [] impl = "Composite" -> extract_partial_Composite(T, v)
         [] OTHER              -> BuildError

\* (&&PhantomData::<T>).into_json(value)
into_json(T, c) ==
    LET impl == Resolve(T)
    IN CASE impl = "String"    -> into_json_String(c)
         [] impl = "Integer"   -> into_json_Integer(c)
         [] impl = "f32"       -> into_json_f32(c)
         [] impl = "f64"       -> into_json_f64(c)
         [] impl = "Composite" -> into_json_Composite(T, c)
         [] OTHER              -> [tag |-> "BuildError"]

(***************************************************************************)
(* Inputs.                                                                 *)
(***************************************************************************)
\* exponents of the powers of two around which integers are sampled: the
\* limits of the integer types and of the f32 and f64 significands
Landmarks == {7, 8, 15, 16, 24, 31, 32, 53, 63, 64}

Mags ==
    {NatBits(n) : n \in 0..(Delta + 1)} \cup {NatBits(1000)}
    \cup {AddSmall(Pow2(k), d) : k \in Landmarks, d \in (0 - Delta)..Delta}

\* every integer a serde_json::Number can hold, sampled
NumberInts ==
    {PosInt(b) : b \in {a \in Mags : BitsLE(a, U64Max)}}
    \cup {NegInt(b) : b \in {a \in Mags : a # <<>> /\ BitsLE(a, Pow2(63))}}

\* 3.14 = 0x1.91EB851EB851Fp+1, 0.1 = 0x1.999999999999Ap-4
M314 == FromHex(<<1, 9, 1, 14, 11, 8, 5, 1, 14, 11, 8, 5, 1, 15>>)

M01 == FromHex(<<1, 9, 9, 9, 9, 9, 9, 9, 9, 9, 9, 9, 9, 10>>)

PosFloats ==
    { MkFin(FALSE, <<>>, 0),                    \* 0.0
      MkFin(FALSE, NatBits(3), 0),              \* 3.0
      MkFin(FALSE, NatBits(7), -1),             \* 3.5
      MkFin(FALSE, M314, -51),                  \* 3.14
      MkFin(FALSE, M01, -56),                   \* 0.1
      MkFin(FALSE, Dec(Pow2(53)), 971),         \* f64::MAX
      MkFin(FALSE, <<1>>, F64MinExp),           \* least positive f64
      MkFin(FALSE, <<1>>, F32MinExp),           \* least positive f32
      MkFin(FALSE, <<1>>, F32MinExp - 1),       \* half of it
      MkFin(FALSE, NatBits(3), F32MinExp - 2) } \* three quarters of it
    \cup {MkFin(FALSE, AddSmall(Pow2(24), d), e) :
            d \in (0 - Delta)..Delta, e \in {0, 104}}
    \cup {MkFin(FALSE, AddSmall(Pow2(53), 0 - d), 0) : d \in 1..Delta}

FiniteFloats == PosFloats \cup {[x EXCEPT !.neg = TRUE] : x \in PosFloats}

NonFinite == {NaN, Inf(FALSE), Inf(TRUE)}

Texts == {"", "x", "127.0.0.1", "not an ip", "true"}

\* the serde_json::Value inputs of extract_partial
JsonInputs ==
    { Null, Bool(TRUE), Bool(FALSE), Array(<<>>),
      Array(<<Number(PosInt(NatBits(1)))>>), Object({}), Object({"name"}) }
    \cup {String(s) : s \in Texts}
    \cup {Number(n) : n \in NumberInts}
    \cup {Number(Float(x)) : x \in FiniteFloats}

\* i is a value of the integer type T
InRange(T, i) ==
    IF Signed(T)
    THEN \/ Len(i.bits) <= Width(T) - 1
         \/ i.neg /\ i.bits = Pow2(Width(T) - 1)
    ELSE ~i.neg /\ Len(i.bits) <= Width(T)

\* the values of the parameter type T offered as autocomplete choices
Candidates(T) ==
    CASE T \in IntTypes \cup {"UserId"} ->
            {i \in {SInt(neg, b) : neg \in BOOLEAN, b \in Mags} : InRange(T, i)}
      [] T = "f32" -> {x \in FiniteFloats : IsF32(x)} \cup NonFinite
      [] T = "f64" -> {x \in FiniteFloats : IsF64(x)} \cup NonFinite
      [] T = "String" -> {[t |-> "str", s |-> s] : s \in Texts}
      [] T = "bool" -> {[t |-> "bool", b |-> b] : b \in BOOLEAN}
      [] T = "Ipv4Addr" ->
            {[t |-> "ip", o |-> o] : o \in {<<127, 0, 0, 1>>, <<10, 0, 0, 255>>}}
      [] OTHER -> {[t |-> "user", id |-> n] : n \in 1..2}

(***************************************************************************)
(* The state machine: a parameter of type ty is declared; the framework    *)
(* extracts partial inputs for it, serializes choices, and a serialized    *)
(* choice may come back as the next partial input.                         *)
(***************************************************************************)
NoValue == [tag |-> "None"]

NoResult == [kind |-> "None"]

NoCand == [t |-> "none"]

Init ==
    /\ ty \in Types
    /\ lastOp = "declare"
    /\ value = NoValue
    /\ result = NoResult
    /\ cand = NoCand
    /\ json = NoValue
    /\ used = {}

\* a command parameter of type T is declared (build time)
Declare(T) ==
    /\ ty' = T
    /\ lastOp' = "declare"
    /\ value' = NoValue
    /\ result' = NoResult
    /\ cand' = NoCand
    /\ json' = NoValue
    /\ used' = {}

\* Autocompletable::extract_partial on the partial input v
ExtractPartial(v) ==
    /\ lastOp' = "extract_partial"
    /\ value' = v
    /\ result' = extract_partial(ty, v)
    /\ cand' = NoCand
    /\ json' = NoValue
    /\ used' = used \cup {Resolve(ty)}
    /\ UNCHANGED ty

\* Autocompletable::into_json on the choice c
IntoJson(c) ==
    /\ lastOp' = "into_json"
    /\ cand' = c
    /\ json' = into_json(ty, c)
    /\ value' = NoValue
    /\ result' = NoResult
    /\ used' = used \cup {Resolve(ty)}
    /\ UNCHANGED ty

\* the serialized choice is the next partial input
ReExtract ==
    /\ lastOp = "into_json"
    /\ lastOp' = "re_extract"
    /\ value' = json
    /\ result' = extract_partial(ty, json)
    /\ used' = used \cup {Resolve(ty)}
    /\ UNCHANGED <<ty, cand, json>>

Next ==
    \/ \E T \in Types : Declare(T)
    \/ \E v \in JsonInputs : ExtractPartial(v)
    \/ \E c \in Candidates(ty) : IntoJson(c)
    \/ ReExtract

Spec == Init /\ [][Next]_vars

TypeOK ==
    /\ ty \in Types
    /\ lastOp \in {"declare", "extract_partial", "into_json", "re_extract"}

(***************************************************************************)
(* Properties.                                                             *)
(***************************************************************************)
Extracted == lastOp \in {"extract_partial", "re_extract"}

IsIntegerNumber(v) == v.tag = "Number" /\ v.n.kind \in {"PosInt", "NegInt"}

\* the number is an integer that a 64-bit signed integer can hold
FitsI64(v) ==
    /\ IsIntegerNumber(v)
    /\ (v.n.kind = "NegInt" \/ Len(v.n.m) <= 63)

IntOf(v) == SInt(v.n.neg, v.n.m)

\* the exact value of a number, with as many significant bits as it takes
Exact(n) == MkFin(n.neg, n.m, n.e)

Zero == MkFin(FALSE, <<>>, 0)

\* C1: integer round-trip.  For every integer type T and every n of T,
\* extract_partial(into_json(n)) is Ok(n).
C1_IntegerRoundTrip ==
    (lastOp = "re_extract" /\ ty \in IntTypes) => result = Ok(cand)

\* C2: weak round-trip.  For every built-in strategy and every candidate,
\* extracting the serialized candidate never gives CommandStructureMismatch.
C2_WeakRoundTrip ==
    (lastOp = "re_extract" /\ ty \in IntTypes \cup FloatTypes \cup TextTypes)
        => ~(result.kind = "Err" /\ result.err = "CommandStructureMismatch")

\* the order of the strategies, most specific first, with the bound of each
PriorityOrder ==
    << <<"Composite", "Comp">>, <<"f64", "F64">>, <<"f32", "F32">>,
       <<"Integer", "Int">>, <<"String", "Str">> >>

Highest(T) ==
    LET k == CHOOSE i \in 1..Len(PriorityOrder) :
                /\ PriorityOrder[i][2] \in Caps(T)
                /\ \A j \in 1..(i - 1) : PriorityOrder[j][2] \notin Caps(T)
    IN PriorityOrder[k][1]

\* C3: resolver priority.  Whatever operations ran for a parameter type,
\* the only strategy ever invoked for it is the highest in the order
\* Composite > f64 > f32 > integer > string among those whose bound the type
\* satisfies; a type that is Composite and string-convertible is delegated
\* to its own implementation, an integer type is never serialized as text.
C3_ResolverPriority ==
    /\ lastOp # "declare" => used = {Highest(ty)}
    /\ (Extracted /\ "Comp" \in Caps(ty))
            => result = [kind |-> "Delegated", to |-> ty, arg |-> value]
    /\ (lastOp = "into_json" /\ "Comp" \in Caps(ty))
            => json = [tag |-> "Delegated", to |-> ty, arg |-> cand]
    /\ (lastOp = "into_json" /\ ty \in IntTypes) => json.tag = "Number"
    /\ (Extracted /\ ty \in IntTypes \cup FloatTypes /\ value.tag = "String")
            => result.kind = "Err"

C3_Witness ==
    /\ ty = "UserText"
    /\ lastOp = "re_extract"
    /\ used = {"Composite"}
    /\ result.kind = "Delegated"
    /\ json.tag = "Delegated"

\* C4: integer bounds check.  For an integer type T and a Number that a
\* 64-bit signed integer can hold, extract_partial is Ok of the same value
\* when the value is in T's range and IntegerOutOfBounds when it is not.
C4_IntegerBoundsCheck ==
    (Extracted /\ ty \in IntTypes /\ FitsI64(value))
        => IF InRange(ty, IntOf(value))
           THEN result = Ok(IntOf(value))
           ELSE result = IntegerOutOfBounds

C4_Witness ==
    /\ ty = "u8"
    /\ lastOp = "extract_partial"
    /\ value = Number(PosInt(NatBits(1000)))
    /\ result = IntegerOutOfBounds

\* C5: kind mismatch on number targets.  For an input that is not a Number,
\* the integer strategy fails with CommandStructureMismatch("expected
\* integer") and both float strategies with
\* CommandStructureMismatch("expected float").
C5_KindMismatch ==
    (Extracted /\ value.tag \in {"Null", "Bool", "String", "Array", "Object"})
        => /\ ty \in IntTypes
                => result = CommandStructureMismatch("expected integer")
           /\ ty \in FloatTypes
                => result = CommandStructureMismatch("expected float")

C5_Witness ==
    /\ ty = "f32"
    /\ lastOp = "extract_partial"
    /\ value = String("x")
    /\ result = CommandStructureMismatch("expected float")

\* C6: non-finite float serialization.  into_json of NaN or an infinity is
\* the integer Number 0 for f32 and f64; into_json of a finite value is a
\* float Number with that value.
C6_NonFiniteSerialization ==
    (lastOp = "into_json" /\ ty \in FloatTypes)
        => IF is_finite(cand)
           THEN /\ json.tag = "Number"
                /\ json.n.kind = "Float"
                /\ Exact(json.n) = cand
           ELSE json = Number(PosInt(<<>>))

C6_Witness ==
    /\ ty = "f32"
    /\ lastOp = "into_json"
    /\ cand = NaN
    /\ json = Number(PosInt(<<>>))

\* C7: string-convertible strategy.  extract_partial of a String is Ok of
\* its text, unchanged and unparsed; of any other tag it is
\* CommandStructureMismatch("expected string"); into_json is a String
\* holding the text formatting of the value.
C7_StringStrategy ==
    ty \in TextTypes =>
        /\ Extracted
             => IF value.tag = "String"
                THEN result = Ok(value.s)
                ELSE result = CommandStructureMismatch("expected string")
        /\ lastOp = "into_json"
             => /\ json.tag = "String"
                /\ cand.t = "str" => json.s = cand.s
                /\ cand = [t |-> "bool", b |-> TRUE] => json.s = "true"
                /\ cand = [t |-> "bool", b |-> FALSE] => json.s = "false"
                /\ cand = [t |-> "ip", o |-> <<127, 0, 0, 1>>]
                     => json.s = "127.0.0.1"
                /\ cand = [t |-> "ip", o |-> <<10, 0, 0, 255>>]
                     => json.s = "10.0.0.255"

C7_Witness ==
    /\ ty = "Ipv4Addr"
    /\ lastOp = "extract_partial"
    /\ value = String("not an ip")
    /\ result = Ok("not an ip")

\* the value x is a value of the float type T
Representable(T, x) == IF T = "f64" THEN IsF64(x) ELSE IsF32(x)

\* the two doubles next to an integer of more than 53 bits
Neighbours(n) ==
    LET s == Len(n.m) - F64Digits
    IN { MkFin(n.neg, TruncShift(n.m, s), s),
         MkFin(n.neg, Inc(TruncShift(n.m, s)), s) }

C9_OutOfBoundsEveryInteger ==
    (Extracted /\ ty \in IntTypes /\ IsIntegerNumber(value)
       /\ ~InRange(ty, IntOf(value)))
        => result = IntegerOutOfBounds

\* C9 amended: an integer Number outside T's range fails with
\* IntegerOutOfBounds when a 64-bit signed integer can hold it, and with
\* CommandStructureMismatch("expected integer") when it is above i64::MAX.
C9_OutOfBoundsWithinI64 ==
    (Extracted /\ ty \in IntTypes /\ IsIntegerNumber(value)
       /\ ~InRange(ty, IntOf(value)))
        => IF FitsI64(value)
           THEN result = IntegerOutOfBounds
           ELSE result = CommandStructureMismatch("expected integer")

C9_Witness ==
    /\ ty = "u8"
    /\ lastOp = "extract_partial"
    /\ value = Number(PosInt(Pow2(63)))
    /\ result = CommandStructureMismatch("expected integer")

====
